---- MODULE Spec2Model ----
(***************************************************************************)
(* A model of the two variational auto-encoders of scvi/models:            *)
(* VAE_ATAC (vae_atac.py) and VAECITE (vae_cite.py).                       *)
(*                                                                         *)
(* Tensors are modelled by what the properties below are about: their      *)
(* shape (a sequence of dimensions, with torch's broadcasting), the        *)
(* signed addends a loss value is the sum of, and the inputs and random    *)
(* draws the value depends on.  None, the Python int 0 and a raised        *)
(* exception are values of their own.                                      *)
(***************************************************************************)
EXTENDS Integers, Sequences, FiniteSets, TLC

VARIABLES model, rng, last, repeat, disk, dataset

vars == <<model, rng, last, repeat, disk, dataset>>

----------------------------------------------------------------------------
(* Bounds of the model *)

\* the largest batch (number of cells) handed to a call
MaxCells == 4
\* number of gene (feature) columns
NGenes == 5
\* number of protein columns
NProteins == 2
\* dimension of the latent space
NLatent == 3
\* the non-zero cardinality of a categorical covariate
NCat == 2
\* the number of random draws a seeded generator hands out
MaxDraws == 8
\* the largest number of Monte-Carlo samples asked of inference
MaxSamples == 2
\* the largest number of files in a directory of matrix files
MaxFiles == 3

BatchSizes == {1, MaxCells}
Cardinalities == {0, NCat}

----------------------------------------------------------------------------
(* Values *)

NoDeps == {}

\* a tensor of shape sh, the sum of the signed addends tm, depending on dep;
\* fn lists the elementwise functions applied to it, innermost first
T(sh, tm, dep) == [k |-> "Tensor", sh |-> sh, tm |-> tm, dep |-> dep, fn |-> <<>>]

\* Python's None
NoneV == [k |-> "None", sh |-> <<>>, tm |-> {}, dep |-> NoDeps, fn |-> <<>>]

\* the Python int 0
Int0 == [k |-> "int", sh |-> <<>>, tm |-> {}, dep |-> NoDeps, fn |-> <<>>]

\* an attribute that was never assigned
Unset == [k |-> "unset", sh |-> <<>>, tm |-> {}, dep |-> NoDeps, fn |-> <<>>]

\* a raised exception
Raise(e) == [k |-> "Raise", sh |-> <<>>, tm |-> {<<e, 1>>}, dep |-> NoDeps, fn |-> <<>>]

IsT(v) == v.k = "Tensor"
IsRaise(v) == v.k = "Raise"

\* the value of a function of one point: Let([a \in {v} |-> e]) is e with a
\* bound to the value of v, the assignment "a = v" followed by e
Let(f) == CHOOSE y \in {f[a] : a \in DOMAIN f} : TRUE

\* the first raised exception of a sequence of evaluated values, else NoneV
FirstRaise(vs) ==
    Let([s \in {vs} |->
        IF \E i \in 1..Len(s) : IsRaise(s[i])
        THEN s[CHOOSE i \in 1..Len(s) :
                   IsRaise(s[i]) /\ \A j \in 1..(i - 1) : ~IsRaise(s[j])]
        ELSE NoneV])

\* v, unless an earlier statement raised
After(vs, v) == Let([e \in {FirstRaise(vs)} |-> IF IsRaise(e) THEN e ELSE v])

Max(a, b) == IF a >= b THEN a ELSE b

\* dimension i of shape s counted from the right, 1 when s is shorter
DimR(s, i) == IF i <= Len(s) THEN s[Len(s) + 1 - i] ELSE 1

Broadcastable(s, t) ==
    \A i \in 1..Max(Len(s), Len(t)) :
        DimR(s, i) = DimR(t, i) \/ DimR(s, i) = 1 \/ DimR(t, i) = 1

Broadcast(s, t) ==
    LET n == Max(Len(s), Len(t))
    IN  [j \in 1..n |-> Max(DimR(s, n + 1 - j), DimR(t, n + 1 - j))]

\* the broadcast shape of the tensors s[i], s[i+1], ...; ok is FALSE when
\* two of them do not broadcast
RECURSIVE Shapes(_, _)
Shapes(s, i) ==
    IF i = Len(s) THEN [ok |-> TRUE, sh |-> s[i].sh]
    ELSE Let([rest \in {Shapes(s, i + 1)} |->
             IF ~rest.ok \/ ~Broadcastable(s[i].sh, rest.sh)
             THEN [ok |-> FALSE, sh |-> <<>>]
             ELSE [ok |-> TRUE, sh |-> Broadcast(s[i].sh, rest.sh)]])

Negate(tm) == {<<a[1], 0 - a[2]>> : a \in tm}

----------------------------------------------------------------------------
(* torch's operations on these values *)

\* the name of addend a under the functions fn, innermost first: exp(a)
RECURSIVE Wrap(_, _)
Wrap(fn, a) == IF fn = <<>> THEN a ELSE Wrap(Tail(fn), Head(fn) \o "(" \o a \o ")")

\* the addends of v, each under the functions applied to v
Addends(v) == {<<Wrap(v.fn, a[1]), a[2]>> : a \in v.tm}

\* a + b
Add(a, b) ==
    Let([p \in {a} |-> Let([q \in {b} |->
        IF IsRaise(p) THEN p
        ELSE IF IsRaise(q) THEN q
        ELSE IF p.k \in {"None", "unset"} \/ q.k \in {"None", "unset"} THEN Raise("TypeError")
        ELSE IF p.k = "int" THEN q
        ELSE IF q.k = "int" THEN p
        ELSE IF ~Broadcastable(p.sh, q.sh) THEN Raise("RuntimeError")
        ELSE T(Broadcast(p.sh, q.sh), Addends(p) \cup Addends(q), p.dep \cup q.dep)])])

\* a - b
Sub(a, b) ==
    Let([q \in {b} |->
        IF IsT(q) THEN Add(a, [q EXCEPT !.tm = Negate(Addends(q)), !.fn = <<>>])
        ELSE Add(a, q)])

\* an elementwise torch function f (exp, sqrt, log, sigmoid, softmax) of v:
\* a TypeError on anything but a tensor
Fn(f, v) ==
    Let([a \in {v} |->
        IF IsRaise(a) THEN a
        ELSE IF ~IsT(a) THEN Raise("TypeError")
        ELSE [a EXCEPT !.fn = Append(a.fn, f)]])

\* v.sum(dim=1)
SumDim1(v) ==
    Let([a \in {v} |->
        IF IsRaise(a) THEN a
        ELSE IF ~IsT(a) THEN Raise("AttributeError")
        ELSE IF Len(a.sh) < 2 THEN Raise("IndexError")
        ELSE T([j \in 1..(Len(a.sh) - 1) |-> IF j < 2 THEN a.sh[j] ELSE a.sh[j + 1]],
               a.tm, a.dep)])

\* v.sum(): a 0-dimensional tensor
SumAll(v) ==
    Let([a \in {v} |->
        IF IsRaise(a) THEN a
        ELSE IF ~IsT(a) THEN Raise("AttributeError")
        ELSE T(<<>>, a.tm, a.dep)])

\* a sum over the last dimension
SumLast(v) ==
    Let([a \in {v} |->
        IF IsRaise(a) THEN a
        ELSE IF ~IsT(a) THEN Raise("TypeError")
        ELSE IF Len(a.sh) < 1 THEN Raise("IndexError")
        ELSE T(SubSeq(a.sh, 1, Len(a.sh) - 1), a.tm, a.dep)])

\* the elementwise combination, named name, of the tensors vs (broadcast):
\* the first operand that is no tensor decides the exception
Combine(name, vs) ==
    Let([s \in {vs} |->
        LET bad == {i \in 1..Len(s) : ~IsT(s[i])}
            first == CHOOSE i \in bad : \A j \in bad : i <= j
        IN  IF bad # {}
            THEN (IF IsRaise(s[first]) THEN s[first] ELSE Raise("TypeError"))
            ELSE Let([b \in {Shapes(s, 1)} |->
                     IF ~b.ok THEN Raise("RuntimeError")
                     ELSE T(b.sh, {<<name, 1>>}, UNION {s[i].dep : i \in 1..Len(s)})])])

\* torch.distributions.Normal(loc, scale): the broadcast pair, or the
\* exception its constructor raises on a None
Normal(loc, scale) == Combine("Normal", <<loc, scale>>)

\* kl(p, q) of two Normal distributions, elementwise over their broadcast
\* batch shape; name is the addend the result stands for
kl(name, p, q) == Combine(name, <<p, q>>)

\* torch.zeros_like(v), torch.ones_like(v)
like(v) ==
    Let([a \in {v} |->
        IF IsT(a) THEN T(a.sh, {}, NoDeps) ELSE IF IsRaise(a) THEN a ELSE Raise("TypeError")])

----------------------------------------------------------------------------
(* The collaborators of scvi.models.modules, scvi.models.utils and         *)
(* scvi.models.log_likelihood, as the two models call them                 *)

\* the i-th draw (from 0) of a call started with the generator in state r,
\* the number of draws made since it was seeded
Noise(r, i) == <<"rng", r + i, 0>>

\* a tensor handed in by the caller; it depends on itself, the columns
\* 0 .. sh[2] - 1 of the input of that name (lower end, upper end excluded)
Given(name, sh) == T(sh, {<<name, 1>>}, {<<name, 0, sh[2]>>})

\* Encoder(n_input, n_output, distribution=dist)(x): the posterior mean and
\* variance, each of shape (batch, n_output), and one reparameterized
\* sample, transformed when dist is "ln"
Encoder(n_input, n_output, dist, x, noise) ==
    Let([a \in {x} |->
        IF IsRaise(a) THEN [q_m |-> a, q_v |-> a, latent |-> a]
        ELSE IF ~IsT(a)
        THEN [q_m |-> Raise("TypeError"), q_v |-> Raise("TypeError"),
              latent |-> Raise("TypeError")]
        ELSE IF Len(a.sh) # 2 \/ a.sh[2] # n_input
        THEN [q_m |-> Raise("RuntimeError"), q_v |-> Raise("RuntimeError"),
              latent |-> Raise("RuntimeError")]
        ELSE Let([sample \in {T(<<a.sh[1], n_output>>, {<<"latent", 1>>},
                                 a.dep \cup {noise})} |->
                 [q_m |-> T(sample.sh, {<<"q_m", 1>>}, a.dep),
                  q_v |-> T(sample.sh, {<<"q_v", 1>>}, a.dep),
                  latent |-> IF dist = "ln" THEN Fn("softmax", sample) ELSE sample]])])

\* what a network conditioned on n_cat_list=[n_batch] raises when the batch
\* covariate it needs is absent
CatCheck(n_batch, batch_index) ==
    IF n_batch > 1 /\ ~IsT(batch_index) THEN Raise("AssertionError") ELSE NoneV

\* the shape of a decoder's output for latent z: z's leading dimensions
\* followed by n_output
OutShape(z, n_output) == Append(SubSeq(z.sh, 1, Len(z.sh) - 1), n_output)

\* what a decoder of n_latent inputs raises on the latent z, else NoneV
LatentCheck(n_latent, n_batch, z, batch_index) ==
    IF IsRaise(z) THEN z
    ELSE IF ~IsT(z) THEN Raise("TypeError")
    ELSE IF Len(z.sh) < 2 \/ z.sh[Len(z.sh)] # n_latent THEN Raise("RuntimeError")
    ELSE CatCheck(n_batch, batch_index)

\* DecoderSCVI(n_latent, n_output, n_cat_list=[n_batch])(dispersion, z,
\* library, batch_index, y): px_scale, px_r, px_rate, px_dropout; px_r is the
\* per-cell dispersion for "gene-cell" and None for every other name
DecoderSCVI(n_latent, n_output, n_batch, dispersion, z, library, batch_index) ==
    Let([zz \in {z} |-> Let([lib \in {library} |->
    Let([bad \in {IF IsRaise(zz) THEN zz
        ELSE IF IsRaise(lib) THEN lib
        ELSE IF ~IsT(lib) THEN Raise("TypeError")
        ELSE LatentCheck(n_latent, n_batch, zz, batch_index)} |->
        IF IsRaise(bad)
        THEN [px_scale |-> bad, px_r |-> bad, px_rate |-> bad, px_dropout |-> bad]
        ELSE Let([sh \in {OutShape(zz, n_output)} |->
                 [px_scale |-> T(sh, {<<"px_scale", 1>>}, zz.dep),
                  px_r |-> IF dispersion = "gene-cell"
                           THEN T(sh, {<<"px_r_decoder", 1>>}, zz.dep)
                           ELSE NoneV,
                  px_rate |-> T(sh, {<<"px_rate", 1>>}, zz.dep \cup lib.dep),
                  px_dropout |-> T(sh, {<<"px_dropout", 1>>}, zz.dep)]])])])])

\* Decoder(n_latent, n_output, n_cat_list=[n_batch])(z, batch_index, y): a
\* mean and a variance, each of shape (batch, n_output)
Decoder(n_latent, n_output, n_batch, z, batch_index) ==
    Let([zz \in {z} |->
    Let([bad \in {LatentCheck(n_latent, n_batch, zz, batch_index)} |->
        IF IsRaise(bad) THEN [p_m |-> bad, p_v |-> bad]
        ELSE Let([sh \in {OutShape(zz, n_output)} |->
                 [p_m |-> T(sh, {<<"p_m", 1>>}, zz.dep),
                  p_v |-> T(sh, {<<"p_v", 1>>}, zz.dep)]])])])

\* LinearDecoderSCVI(n_latent, n_output, n_cat_list=[n_batch])(dispersion, z,
\* library, batch_index, y) as VAE_ATAC uses it: one tensor of shape
\* (batch, n_output)
LinearDecoderSCVI(n_latent, n_output, n_batch, z, library, batch_index) ==
    Let([zz \in {z} |-> Let([lib \in {library} |->
    Let([bad \in {IF IsRaise(zz) THEN zz
        ELSE IF IsRaise(lib) THEN lib
        ELSE LatentCheck(n_latent, n_batch, zz, batch_index)} |->
        IF IsRaise(bad) THEN bad
        ELSE T(OutShape(zz, n_output), {<<"topics", 1>>}, zz.dep)])])])

\* one_hot(index, n_cat): shape (batch, n_cat); an absent index has no size,
\* and no index fits into n_cat = 0 columns
one_hot(index, n_cat) ==
    IF IsRaise(index) THEN index
    ELSE IF ~IsT(index) THEN Raise("AttributeError")
    ELSE IF n_cat = 0 THEN Raise("RuntimeError")
    ELSE T(<<index.sh[1], n_cat>>, {<<"one_hot", 1>>}, index.dep)

\* F.linear(input, weight): input (batch, k) times the transpose of weight
\* (n, k)
linear(input, weight) ==
    Let([i \in {input} |-> Let([w \in {weight} |->
        IF IsRaise(i) THEN i
        ELSE IF IsRaise(w) THEN w
        ELSE IF ~IsT(i) \/ ~IsT(w) THEN Raise("TypeError")
        ELSE IF Len(w.sh) # 2 \/ i.sh[Len(i.sh)] # w.sh[2] THEN Raise("RuntimeError")
        ELSE T(<<i.sh[1], w.sh[1]>>, w.tm, i.dep \cup w.dep)])])

\* a log-likelihood of scvi.models.log_likelihood (log_zinb_positive,
\* log_nb_positive, log_beta_bernoulli, log_zero_inflated_bernoulli): the
\* elementwise log-density of x under the parameters, summed over features
log_likelihood(x, params) == SumLast(Combine("log_likelihood", <<x>> \o params))

\* Multinomial(probs=alpha).log_prob(x): one value per row of alpha
Multinomial_log_prob(alpha, x) ==
    Let([a \in {alpha} |->
        IF IsRaise(a) THEN a
        ELSE IF ~IsT(a) THEN Raise("ValueError")
        ELSE SumLast(Combine("log_likelihood", <<x, a>>))])

\* v under the name of the addend it stands for in a loss
Named(name, v) ==
    Let([a \in {v} |-> IF IsT(a) THEN [a EXCEPT !.tm = {<<name, 1>>}, !.fn = <<>>] ELSE a])

\* torch.tensor(value) of a Python float: 0-dimensional
tensor(name) == T(<<>>, {<<name, 1>>}, NoDeps)

\* a Python float
FloatV == [k |-> "float", sh |-> <<>>, tm |-> {}, dep |-> NoDeps, fn |-> <<>>]

Min(a, b) == IF a <= b THEN a ELSE b

\* x[:, :n] and x[:, n:]: the columns kept, of the shape and of the input
\* the value depends on
SliceTo(x, n) ==
    IF ~IsT(x) THEN x
    ELSE [x EXCEPT !.sh = <<x.sh[1], Min(n, x.sh[2])>>,
                   !.dep = {<<d[1], d[2], Min(d[2] + n, d[3])>> : d \in x.dep}]
\* a protein segment that starts one column late: x[:, n + 1:]
SliceFrom_late(x, n) ==
    IF ~IsT(x) THEN x
    ELSE [x EXCEPT !.sh = <<x.sh[1], x.sh[2] - Min(n + 1, x.sh[2])>>,
                   !.dep = {<<d[1], Min(d[2] + n + 1, d[3]), d[3]>> : d \in x.dep}]

SliceFrom(x, n) ==
    IF ~IsT(x) THEN x
    ELSE [x EXCEPT !.sh = <<x.sh[1], x.sh[2] - Min(n, x.sh[2])>>,
                   !.dep = {<<d[1], Min(d[2] + n, d[3]), d[3]>> : d \in x.dep}]

\* Normal(loc, scale).rsample(size): a reparameterized draw of shape
\* size followed by the distribution's batch shape
rsample(name, p, size, noise) ==
    Let([d \in {p} |->
        IF ~IsT(d) THEN d
        ELSE T(size \o d.sh, {<<name, 1>>}, d.dep \cup {noise})])

\* v.unsqueeze(0).expand((n_samples, ...))
Expand(n_samples, v) ==
    IF IsRaise(v) THEN v
    ELSE IF ~IsT(v) THEN Raise("AttributeError")
    ELSE [v EXCEPT !.sh = <<n_samples>> \o v.sh]

\* Normal(q_m, q_v.sqrt()).sample(): a fresh draw, no transformation
Sample(q_m, q_v, noise) ==
    Let([d \in {Combine("latent", <<q_m, Fn("sqrt", q_v)>>)} |->
        IF IsT(d) THEN [d EXCEPT !.dep = @ \cup {noise}] ELSE d])

----------------------------------------------------------------------------
(* The model object *)

\* the fields of both classes; a field a class does not have is "NA"/Unset.
\* adt_dispersion_arg keeps the adt_dispersion argument as it was passed:
\* __init__ overwrites self.adt_dispersion
Blank ==
    [cls |-> "none", status |-> "none",
     n_input |-> 0, n_input_genes |-> 0, n_input_proteins |-> 0,
     n_batch |-> 0, n_labels |-> 0, n_latent |-> 0,
     log_variational |-> FALSE,
     dispersion |-> "NA", reconstruction_loss |-> "NA",
     l_alpha_prior |-> Unset, px_r |-> Unset,
     z_encoder |-> "NA", decoder |-> "NA",
     umi_dispersion |-> "NA", adt_dispersion |-> "NA",
     reconstruction_loss_umi |-> "NA", reconstruction_loss_adt |-> "NA",
     adt_mean_lib |-> Unset, adt_var_lib |-> Unset,
     b_mean |-> Unset, b_var |-> Unset,
     model_background |-> FALSE, latent_distribution |-> "NA",
     log_b_mean |-> Unset, log_b_log_scale |-> Unset,
     log_alpha |-> Unset, px_r_umi |-> Unset, px_r_adt |-> Unset,
     umi_decoder |-> "NA", adt_decoder |-> "NA",
     adt_dispersion_arg |-> "NA"]

\* torch.nn.Parameter(torch.randn(sh))
Parameter(name, sh) == T(sh, {<<name, 1>>}, NoDeps)

\* the locals of a call the properties are about, Unset where the method
\* has no such local: x_ the counts fed to the z encoder, umi_ and adt_ the
\* segments fed to the library encoders, px_r the dispersions inference
\* returns, x (umi, adt) the counts the likelihood is evaluated against,
\* mean and scale the prior of z, px_rate_adt the protein rate, log_b the
\* background, z the latent handed to the decoder, n_samples the number of
\* samples (1 unless the caller asks for more)
NoLocals ==
    [x_ |-> Unset, umi_ |-> Unset, adt_ |-> Unset,
     px_r |-> Unset, px_r_umi |-> Unset, px_r_adt |-> Unset,
     x |-> Unset, umi |-> Unset, adt |-> Unset,
     mean |-> Unset, scale |-> Unset,
     px_rate_adt |-> Unset, log_b |-> Unset, z |-> Unset,
     n_samples |-> 1]

----------------------------------------------------------------------------
(* VAE_ATAC *)

\* the names VAE_ATAC documents or branches on
ATAC_Dispersions == {"gene", "gene-batch", "gene-label", "gene-cell"}
ATAC_NonCount ==
    {"beta-bernoulli", "zero_inflated_bernoulli", "bernoulli", "multinomial", "lda"}
ATAC_Losses == {"zinb", "nb"} \cup ATAC_NonCount

\* VAE_ATAC.__init__
ATAC_init(n_input, n_batch, n_labels, n_latent, dispersion, log_variational, reconstruction_loss, log_alpha_prior) ==
    [Blank EXCEPT
        !.cls = "VAE_ATAC",
        !.status = "constructed",
        !.n_input = n_input,
        !.dispersion = dispersion,
        !.n_latent = n_latent,
        !.log_variational = log_variational,
        !.reconstruction_loss = reconstruction_loss,
        !.n_batch = n_batch,
        !.n_labels = n_labels,
        !.l_alpha_prior =
            IF log_alpha_prior = "None" /\ reconstruction_loss = "lda"
            THEN Parameter("l_alpha_prior", <<1>>)
            ELSE IF log_alpha_prior # "str" /\ reconstruction_loss = "lda"
            THEN tensor("l_alpha_prior")
            ELSE NoneV,
        !.px_r =
            IF dispersion = "gene" THEN Parameter("px_r", <<n_input>>)
            ELSE IF dispersion = "gene-batch" THEN Parameter("px_r", <<n_input, n_batch>>)
            ELSE IF dispersion = "gene-label" THEN Parameter("px_r", <<n_input, n_labels>>)
            ELSE Unset,
        !.z_encoder = IF reconstruction_loss # "lda" THEN "normal" ELSE "ln",
        !.decoder =
            IF reconstruction_loss \notin ATAC_NonCount THEN "DecoderSCVI"
            ELSE IF reconstruction_loss = "lda" THEN "LinearDecoderSCVI"
            ELSE "Decoder"]

\* VAE_ATAC._reconstruction_loss
ATAC_reconstruction_loss(m, x, px_rate, px_r, px_dropout, alpha, beta) ==
    Named("reconst_loss",
        IF m.reconstruction_loss = "zinb"
        THEN log_likelihood(x, <<px_rate, px_r, px_dropout>>)
        ELSE IF m.reconstruction_loss = "nb"
        THEN log_likelihood(x, <<px_rate, px_r>>)
        ELSE IF m.reconstruction_loss = "beta-bernoulli"
        THEN log_likelihood(x, <<alpha, beta>>)
        ELSE IF m.reconstruction_loss = "bernoulli"
        THEN SumDim1(Fn("log", Combine("log_likelihood", <<x, beta>>)))
        ELSE IF m.reconstruction_loss = "zero_inflated_bernoulli"
        THEN log_likelihood(x, <<beta, alpha>>)
        ELSE Multinomial_log_prob(alpha, x))

\* the decoding branches of VAE_ATAC.inference: the dispersion px_r chosen
\* by name for the count families, alpha and beta for the others
ATAC_decode(m, z, library, batch_index, y) ==
    LET none == [px_scale |-> NoneV, px_r |-> NoneV, px_rate |-> NoneV,
                 px_dropout |-> NoneV, alpha |-> NoneV, beta |-> NoneV]
        loss == m.reconstruction_loss
    IN  IF loss \notin ATAC_NonCount
        THEN Let([d \in {DecoderSCVI(m.n_latent, m.n_input, m.n_batch, m.dispersion,
                             z, library, batch_index)} |->
                 [none EXCEPT
                     !.px_scale = d.px_scale,
                     !.px_r = After(<<d.px_scale>>,
                                 Fn("exp",
                                    IF m.dispersion = "gene-label"
                                    THEN linear(one_hot(y, m.n_labels), m.px_r)
                                    ELSE IF m.dispersion = "gene-batch"
                                    THEN linear(one_hot(batch_index, m.n_batch), m.px_r)
                                    ELSE IF m.dispersion = "gene"
                                    THEN m.px_r
                                    ELSE d.px_r)),
                     !.px_rate = d.px_rate,
                     !.px_dropout = d.px_dropout]])
        ELSE IF loss = "lda"
        THEN [none EXCEPT
                 !.alpha = Fn("softmax",
                              LinearDecoderSCVI(m.n_latent, m.n_input, m.n_batch,
                                                z, library, batch_index))]
        ELSE Let([d \in {Decoder(m.n_latent, m.n_input, m.n_batch, z, batch_index)} |->
                 IF loss = "beta-bernoulli"
                 THEN [none EXCEPT !.alpha = Fn("exp", d.p_m), !.beta = d.p_v]
                 ELSE IF loss \in {"bernoulli", "zero_inflated_bernoulli"}
                 THEN [none EXCEPT !.alpha = d.p_m,
                                   !.beta = Fn("sigmoid", Fn("log", d.p_v))]
                 ELSE [none EXCEPT !.alpha = Fn("softmax", d.p_m), !.beta = d.p_v]])

\* VAE_ATAC.inference, the generator in state r when it is called
ATAC_inference(m, x, batch_index, y, n_samples, r) ==
    Let([x_ \in {IF m.log_variational THEN Fn("log1p", x) ELSE x} |->
    Let([ez \in {Encoder(m.n_input, m.n_latent, m.z_encoder, x_, Noise(r, 0))} |->
    Let([el \in {Encoder(m.n_input, 1, "normal", x_, Noise(r, 1))} |->
    Let([multi \in {n_samples > 1} |->
    Let([q \in {[qz_m |-> IF multi THEN Expand(n_samples, ez.q_m) ELSE ez.q_m,
         qz_v |-> IF multi THEN Expand(n_samples, ez.q_v) ELSE ez.q_v,
         ql_m |-> IF multi THEN Expand(n_samples, el.q_m) ELSE el.q_m,
         ql_v |-> IF multi THEN Expand(n_samples, el.q_v) ELSE el.q_v]} |->
    Let([z \in {IF multi THEN Sample(q.qz_m, q.qz_v, Noise(r, 2)) ELSE ez.latent} |->
    Let([library \in {IF multi THEN Sample(q.ql_m, q.ql_v, Noise(r, 3)) ELSE el.latent} |->
    Let([out \in {ATAC_decode(m, z, library, batch_index, y)} |->
        [px_scale |-> out.px_scale, px_r |-> out.px_r, px_rate |-> out.px_rate,
         px_dropout |-> out.px_dropout,
         qz_m |-> q.qz_m, qz_v |-> q.qz_v, z |-> z,
         ql_m |-> q.ql_m, ql_v |-> q.ql_v, library |-> library,
         alpha |-> out.alpha, beta |-> out.beta,
         x_ |-> x_,
         exc |-> FirstRaise(<<ez.q_m, el.q_m, q.qz_m, z, q.ql_m, library,
                              out.px_scale, out.px_r, out.alpha, out.beta>>),
         draws |-> (IF IsT(ez.latent) THEN 1 ELSE 0) + (IF IsT(el.latent) THEN 1 ELSE 0)
                   + (IF multi /\ IsT(z) THEN 1 ELSE 0)
                   + (IF multi /\ IsT(library) THEN 1 ELSE 0)]])])])])])])])])

\* VAE_ATAC.sample_from_posterior_z: the sample of the z encoder, or its
\* mean when give_mean is set
ATAC_sample_from_posterior_z(m, x, y, give_mean, r) ==
    Let([x_ \in {IF m.log_variational THEN Fn("log1p", x) ELSE x} |->
    Let([e \in {Encoder(m.n_input, m.n_latent, m.z_encoder, x_, Noise(r, 0))} |->
        [exc |-> FirstRaise(<<e.q_m>>),
         out |-> <<IF give_mean THEN e.q_m ELSE e.latent>>,
         draws |-> IF IsT(e.latent) THEN 1 ELSE 0,
         locals |-> [NoLocals EXCEPT !.x_ = x_]]])])

\* VAE_ATAC.get_latents: sample_from_posterior_z(x, y) inside a list
ATAC_get_latents(m, x, y, r) == ATAC_sample_from_posterior_z(m, x, y, FALSE, r)

\* a library query that encodes the counts as they are
ATAC_sample_from_posterior_l_raw(m, x, r) ==
    Let([x_ \in {x} |->
    Let([e \in {Encoder(m.n_input, 1, "normal", x_, Noise(r, 0))} |->
        [exc |-> FirstRaise(<<e.q_m>>),
         out |-> <<e.latent>>,
         draws |-> IF IsT(e.latent) THEN 1 ELSE 0,
         locals |-> [NoLocals EXCEPT !.x_ = x_]]])])

\* VAE_ATAC.sample_from_posterior_l: the third output of the library encoder
ATAC_sample_from_posterior_l(m, x, r) ==
    Let([x_ \in {IF m.log_variational THEN Fn("log1p", x) ELSE x} |->
    Let([e \in {Encoder(m.n_input, 1, "normal", x_, Noise(r, 0))} |->
        [exc |-> FirstRaise(<<e.q_m>>),
         out |-> <<e.latent>>,
         draws |-> IF IsT(e.latent) THEN 1 ELSE 0,
         locals |-> [NoLocals EXCEPT !.x_ = x_]]])])

\* VAE_ATAC.inference as a call of its own: the tuple of twelve it returns
ATAC_inference_call(m, x, batch_index, y, n_samples, r) ==
    Let([inf \in {ATAC_inference(m, x, batch_index, y, n_samples, r)} |->
        [exc |-> inf.exc,
         out |-> <<inf.px_scale, inf.px_r, inf.px_rate, inf.px_dropout, inf.qz_m,
                   inf.qz_v, inf.z, inf.ql_m, inf.ql_v, inf.library, inf.alpha,
                   inf.beta>>,
         draws |-> inf.draws,
         locals |-> [NoLocals EXCEPT !.x_ = inf.x_, !.px_r = inf.px_r, !.z = inf.z,
                                     !.n_samples = n_samples]]])

\* VAE_ATAC.get_sample_scale: element 0 of inference's tuple
ATAC_get_sample_scale(m, x, batch_index, y, n_samples, r) ==
    Let([c \in {ATAC_inference_call(m, x, batch_index, y, n_samples, r)} |->
        [c EXCEPT !.out = <<c.out[1]>>]])

\* VAE_ATAC.get_sample_rate: element 2 of inference's tuple
ATAC_get_sample_rate(m, x, batch_index, y, n_samples, r) ==
    Let([c \in {ATAC_inference_call(m, x, batch_index, y, n_samples, r)} |->
        [c EXCEPT !.out = <<c.out[3]>>]])

\* the number of names "px_scale, _, _, _" unpacks a value into
ScaleFromZTargets == 4

\* VAE_ATAC.scale_from_z: the decoder is called as
\* decoder("gene", z, library, batch_index) and its result unpacked into
\* four names.  The count decoder returns four values; the linear decoder's
\* one tensor unpacks row by row; the (z, batch_index, y) decoder is handed
\* the string "gene" as its latent
ATAC_scale_from_z(m, sample_batch, fixed_batch, r) ==
    Let([x_ \in {IF m.log_variational THEN Fn("log1p", sample_batch) ELSE sample_batch} |->
    Let([e \in {Encoder(m.n_input, m.n_latent, m.z_encoder, x_, Noise(r, 0))} |->
    Let([batch_index \in {After(<<e.q_m>>, T(<<sample_batch.sh[1], 1>>, {}, NoDeps))} |->
    Let([library \in {batch_index} |->
    Let([px_scale \in {
        IF m.decoder = "DecoderSCVI"
        THEN DecoderSCVI(m.n_latent, m.n_input, m.n_batch, "gene", e.latent, library,
                         batch_index).px_scale
        ELSE IF m.decoder = "LinearDecoderSCVI"
        THEN Let([rows \in {LinearDecoderSCVI(m.n_latent, m.n_input, m.n_batch, e.latent,
                                              library, batch_index)} |->
                 IF ~IsT(rows) THEN rows
                 ELSE IF rows.sh[1] # ScaleFromZTargets THEN Raise("ValueError")
                 ELSE [rows EXCEPT !.sh = Tail(rows.sh)]])
        ELSE After(<<batch_index>>, Raise("TypeError"))} |->
        [exc |-> FirstRaise(<<e.q_m, px_scale>>),
         out |-> <<px_scale>>,
         draws |-> IF IsT(e.latent) THEN 1 ELSE 0,
         locals |-> [NoLocals EXCEPT !.x_ = x_]]])])])])])

\* the prior of z in forward: the standard normal without an alpha, else the
\* mean and scale computed from the alpha
PriorMean(ap, qz_m) == IF ap.k = "None" THEN like(qz_m) ELSE Fn("alpha_mean", ap)
PriorScale(ap, qz_v) == IF ap.k = "None" THEN like(qz_v) ELSE Fn("sqrt", Fn("alpha_var", ap))

\* a z KL summed over everything instead of over the latent dimension
ATAC_kl_divergence_z_total(qz_m, qz_v, mean, scale) ==
    SumAll(kl("kl_divergence_z", Normal(qz_m, Fn("sqrt", qz_v)), Normal(mean, scale)))

\* kl_divergence_z of VAE_ATAC.forward
ATAC_kl_divergence_z(qz_m, qz_v, mean, scale) ==
    SumDim1(kl("kl_divergence_z", Normal(qz_m, Fn("sqrt", qz_v)), Normal(mean, scale)))

\* a return statement that also adds the z KL into the first output
ATAC_return_presummed(reconst_loss, kl_divergence_l, kl_divergence) ==
    <<Add(Add(reconst_loss, kl_divergence_l), kl_divergence), kl_divergence>>

\* the return statement of VAE_ATAC.forward
ATAC_return(reconst_loss, kl_divergence_l, kl_divergence) ==
    <<Add(reconst_loss, kl_divergence_l), kl_divergence>>

\* VAE_ATAC.forward: the returned tuple, or the exception raised
ATAC_forward(m, x, local_l_mean, local_l_var, batch_index, y, r) ==
    Let([inf \in {ATAC_inference(m, x, batch_index, y, 1, r)} |->
    Let([mean \in {After(<<inf.exc>>, PriorMean(m.l_alpha_prior, inf.qz_m))} |->
    Let([scale \in {After(<<mean>>, PriorScale(m.l_alpha_prior, inf.qz_v))} |->
    Let([kl_divergence_z \in {After(<<scale>>,
                                    ATAC_kl_divergence_z(inf.qz_m, inf.qz_v,
                                                         mean, scale))} |->
    Let([kl_divergence_l \in {After(<<kl_divergence_z>>,
              IF m.reconstruction_loss \notin ATAC_NonCount
              THEN SumDim1(kl("kl_divergence_l",
                              Normal(inf.ql_m, Fn("sqrt", inf.ql_v)),
                              Normal(local_l_mean, Fn("sqrt", local_l_var))))
              ELSE Int0)} |->
    Let([reconst_loss \in {After(<<kl_divergence_l>>,
              ATAC_reconstruction_loss(m, x, inf.px_rate, inf.px_r,
                                       inf.px_dropout, inf.alpha, inf.beta))} |->
    Let([ret \in {ATAC_return(reconst_loss, kl_divergence_l, kl_divergence_z)} |->
        [exc |-> FirstRaise(<<inf.exc, kl_divergence_z, kl_divergence_l,
                              reconst_loss, ret[1], ret[2]>>),
         out |-> ret,
         draws |-> inf.draws,
         locals |-> [NoLocals EXCEPT
                        !.x_ = inf.x_, !.px_r = inf.px_r, !.z = inf.z,
                        !.x = After(<<kl_divergence_l>>, x),
                        !.mean = mean, !.scale = scale]]])])])])])])])

----------------------------------------------------------------------------
(* VAECITE *)

\* the names VAECITE documents
CITE_UmiDispersions == {"gene", "gene-batch", "gene-label", "gene-cell"}
CITE_AdtDispersions == {"protein", "protein-batch", "protein-label", "protein-cell"}
CITE_UmiLosses == {"nb", "zinb"}
CITE_AdtLosses == {"nb", "poisson", "log_normal"}

\* VAECITE.__init__; a holds the constructor's arguments.  len() of a
\* protein_indexes that is None raises, and no model is constructed
CITE_init(a) ==
    IF a.protein_indexes = "None"
    THEN [Blank EXCEPT !.cls = "VAECITE", !.status = "failed"]
    ELSE
    [Blank EXCEPT
        !.cls = "VAECITE",
        !.status = "constructed",
        !.umi_dispersion = a.umi_dispersion,
        !.n_latent = a.n_latent,
        !.log_variational = a.log_variational,
        !.reconstruction_loss_umi = a.reconstruction_loss_umi,
        !.n_batch = a.n_batch,
        !.n_labels = a.n_labels,
        !.n_input_genes = a.n_input_genes,
        !.n_input_proteins = a.n_proteins,
        !.reconstruction_loss_adt = a.reconstruction_loss_adt,
        !.adt_mean_lib = a.adt_mean_lib,
        !.adt_var_lib = a.adt_var_lib,
        !.adt_dispersion_arg = a.adt_dispersion,
        !.adt_dispersion =
            IF a.adt_dispersion \in {"protein", "protein-batch", "protein-label"}
            THEN a.adt_dispersion
            ELSE "gene-cell",
        !.b_mean = a.b_mean,
        !.b_var = a.b_var,
        !.model_background = a.model_background,
        !.latent_distribution = a.latent_distribution,
        !.log_b_mean =
            IF a.model_background THEN Parameter("log_b_mean", <<a.n_proteins>>)
            ELSE Unset,
        !.log_b_log_scale =
            IF a.model_background THEN Parameter("log_b_log_scale", <<a.n_proteins>>)
            ELSE Unset,
        !.log_alpha =
            IF a.latent_distribution = "ln" /\ a.log_alpha = "None"
            THEN Parameter("log_alpha", <<1>>)
            ELSE IF a.latent_distribution = "ln" /\ a.log_alpha = "float"
            THEN tensor("log_alpha")
            ELSE IF a.log_alpha = "None" THEN NoneV
            ELSE IF a.log_alpha = "float" THEN FloatV
            ELSE T(<<1>>, {<<"log_alpha", 1>>}, NoDeps),
        !.px_r_umi =
            IF a.umi_dispersion = "gene"
            THEN Parameter("px_r_umi", <<a.n_input_genes>>)
            ELSE IF a.umi_dispersion = "gene-batch"
            THEN Parameter("px_r_umi", <<a.n_input_genes, a.n_batch>>)
            ELSE IF a.umi_dispersion = "gene-label"
            THEN Parameter("px_r_umi", <<a.n_input_genes, a.n_labels>>)
            ELSE Unset,
        !.px_r_adt =
            IF a.adt_dispersion = "protein"
            THEN Parameter("px_r_adt", <<a.n_proteins>>)
            ELSE IF a.adt_dispersion = "protein-batch"
            THEN Parameter("px_r_adt", <<a.n_proteins, a.n_batch>>)
            ELSE IF a.adt_dispersion = "protein-label"
            THEN Parameter("px_r_adt", <<a.n_proteins, a.n_labels>>)
            ELSE Unset,
        !.z_encoder = a.latent_distribution,
        !.umi_decoder = "DecoderSCVI",
        !.adt_decoder =
            IF a.reconstruction_loss_adt = "log_normal" THEN "Decoder"
            ELSE "DecoderSCVI"]

\* VAECITE._reconstruction_loss: the pair (reconst_loss_umi, reconst_loss_adt);
\* reconst_loss_adt is never assigned for a name that is none of the three
CITE_reconstruction_loss(m, x, px_rate, px_r, px_dropout) ==
    Let([umi \in {SliceTo(x, m.n_input_genes)} |->
    Let([adt \in {SliceFrom(x, m.n_input_genes)} |->
    Let([reconst_loss_umi \in {Named("reconst_loss_umi",
              IF m.reconstruction_loss_umi = "zinb"
              THEN log_likelihood(umi, <<px_rate.umi, px_r.umi, px_dropout.umi>>)
              ELSE log_likelihood(umi, <<px_rate.umi, px_r.umi>>))} |->
        [x_umi |-> umi,
         x_adt |-> adt,
         umi |-> reconst_loss_umi,
         adt |-> After(<<reconst_loss_umi>>,
                    Named("reconst_loss_adt",
                        IF m.reconstruction_loss_adt = "log_normal"
                        THEN SumDim1(Combine("log_prob", <<px_rate.adt, px_r.adt, adt>>))
                        ELSE IF m.reconstruction_loss_adt = "nb"
                        THEN log_likelihood(adt, <<px_rate.adt, px_r.adt>>)
                        ELSE IF m.reconstruction_loss_adt = "poisson"
                        THEN SumDim1(Combine("log_prob", <<px_rate.adt, adt>>))
                        ELSE Raise("UnboundLocalError")))]])])])

\* a background drawn from a source the seed does not reset: its draw also
\* counts the calls made before
CITE_log_b_unseeded(m, qz_m, n_samples, r) ==
    rsample("log_b", Normal(m.log_b_mean, Fn("exp", m.log_b_log_scale)),
            IF n_samples > 1 THEN <<n_samples, qz_m.sh[1]>> ELSE <<qz_m.sh[1]>>,
            Noise(r, (IF n_samples > 1 THEN 4 ELSE 3)
                     + (IF last.op = "none" THEN 0 ELSE 1)))

\* log_b of VAECITE.inference: one background value per cell and protein,
\* drawn again for n_samples > 1
CITE_log_b(m, qz_m, n_samples, r) ==
    rsample("log_b", Normal(m.log_b_mean, Fn("exp", m.log_b_log_scale)),
            IF n_samples > 1 THEN <<n_samples, qz_m.sh[1]>> ELSE <<qz_m.sh[1]>>,
            Noise(r, IF n_samples > 1 THEN 4 ELSE 3))

\* a z encoder as wide as whatever batch it is handed
CITE_z_encoder_any_width(m, x_, noise) ==
    Encoder(x_.sh[2], m.n_latent, m.z_encoder, x_, noise)

\* self.z_encoder(x_, y): the encoder __init__ builds for
\* n_input_genes + n_input_proteins columns
CITE_z_encoder(m, x_, noise) ==
    Encoder(m.n_input_genes + m.n_input_proteins, m.n_latent, m.z_encoder, x_, noise)

\* a gene decoding whose dispersion is exponentiated a second time
CITE_decode_umi_exp_twice(m, z, library_umi, batch_index, y) ==
    Let([d \in {DecoderSCVI(m.n_latent, m.n_input_genes, m.n_batch, m.umi_dispersion,
                    z, library_umi, batch_index)} |->
        [px_scale |-> d.px_scale,
         px_rate |-> d.px_rate,
         px_dropout |-> d.px_dropout,
         px_r |-> After(<<d.px_scale>>,
                     Fn("exp", Fn("exp",
                        IF m.umi_dispersion = "gene-label"
                        THEN linear(one_hot(y, m.n_labels), m.px_r_umi)
                        ELSE IF m.umi_dispersion = "gene-batch"
                        THEN linear(one_hot(batch_index, m.n_batch), m.px_r_umi)
                        ELSE IF m.umi_dispersion = "gene"
                        THEN m.px_r_umi
                        ELSE d.px_r)))]])

\* the gene decoding of VAECITE.inference: the gene dispersion is chosen by
\* name
CITE_decode_umi(m, z, library_umi, batch_index, y) ==
    Let([d \in {DecoderSCVI(m.n_latent, m.n_input_genes, m.n_batch, m.umi_dispersion,
                    z, library_umi, batch_index)} |->
        [px_scale |-> d.px_scale,
         px_rate |-> d.px_rate,
         px_dropout |-> d.px_dropout,
         px_r |-> After(<<d.px_scale>>,
                     Fn("exp",
                        IF m.umi_dispersion = "gene-label"
                        THEN linear(one_hot(y, m.n_labels), m.px_r_umi)
                        ELSE IF m.umi_dispersion = "gene-batch"
                        THEN linear(one_hot(batch_index, m.n_batch), m.px_r_umi)
                        ELSE IF m.umi_dispersion = "gene"
                        THEN m.px_r_umi
                        ELSE d.px_r))]])

\* the protein decoding of VAECITE.inference for the count families: the
\* background exp(log_b) is added to the rate when it is modelled
CITE_decode_adt(m, z, library_adt, ql_m_adt, log_b, batch_index, y) ==
    Let([d \in {DecoderSCVI(m.n_latent, m.n_input_proteins, m.n_batch, m.adt_dispersion, z,
                    IF m.model_background THEN ql_m_adt ELSE library_adt,
                    batch_index)} |->
    Let([px_rate \in {IF m.model_background THEN Add(d.px_rate, Fn("exp", log_b))
                      ELSE d.px_rate} |->
        [px_scale |-> d.px_scale,
         px_rate |-> px_rate,
         px_dropout |-> d.px_dropout,
         px_r |-> After(<<px_rate>>,
                     Fn("exp",
                        IF m.adt_dispersion = "protein-label"
                        THEN linear(one_hot(y, m.n_labels), m.px_r_adt)
                        ELSE IF m.adt_dispersion = "protein-batch"
                        THEN linear(one_hot(batch_index, m.n_batch), m.px_r_adt)
                        ELSE IF m.adt_dispersion = "protein"
                        THEN m.px_r_adt
                        ELSE d.px_r))]])])

\* the protein decoding of VAECITE.inference for "log_normal"
CITE_decode_adt_log_normal(m, z, library_adt, batch_index) ==
    Let([d \in {Decoder(m.n_latent, m.n_input_proteins, m.n_batch, z, batch_index)} |->
    Let([px_rate \in {Add(d.p_m, library_adt)} |->
        [px_scale |-> d.p_m,
         px_rate |-> px_rate,
         px_dropout |-> Unset,
         px_r |-> After(<<px_rate>>,
                     IF m.adt_dispersion = "protein"
                     THEN Fn("exp", m.px_r_adt)
                     ELSE d.p_v)]])])

\* VAECITE.inference, the generator in state r when it is called
CITE_inference(m, x, batch_index, y, n_samples, r) ==
    Let([x_ \in {IF m.log_variational THEN Fn("log1p", x) ELSE x} |->
    Let([umi_ \in {SliceTo(x_, m.n_input_genes)} |->
    Let([adt_ \in {SliceFrom(x_, m.n_input_genes)} |->
    Let([ez \in {CITE_z_encoder(m, x_, Noise(r, 0))} |->
    Let([eu \in {Encoder(m.n_input_genes, 1, "normal",
                After(<<ez.q_m>>, umi_), Noise(r, 1))} |->
    Let([ea \in {Encoder(m.n_input_proteins, 1, "normal",
                After(<<eu.q_m>>, adt_), Noise(r, 2))} |->
    Let([multi \in {n_samples > 1} |->
    Let([nb \in {IF m.model_background THEN 1 ELSE 0} |->
    Let([log_b \in {IF ~m.model_background THEN Unset
        ELSE After(<<ez.q_m, eu.q_m, ea.q_m>>, CITE_log_b(m, ez.q_m, n_samples, r))} |->
    Let([q \in {[qz_m |-> IF multi THEN Expand(n_samples, ez.q_m) ELSE ez.q_m,
         qz_v |-> IF multi THEN Expand(n_samples, ez.q_v) ELSE ez.q_v,
         ql_m |-> [umi |-> IF multi THEN Expand(n_samples, eu.q_m) ELSE eu.q_m,
                   adt |-> IF multi THEN Expand(n_samples, ea.q_m) ELSE ea.q_m],
         ql_v |-> [umi |-> IF multi THEN Expand(n_samples, eu.q_v) ELSE eu.q_v,
                   adt |-> IF multi THEN Expand(n_samples, ea.q_v) ELSE ea.q_v]]} |->
    Let([z \in {IF ~multi THEN ez.latent
        ELSE IF m.z_encoder = "ln"
        THEN Fn("softmax", Sample(q.qz_m, q.qz_v, Noise(r, 3 + 2 * nb)))
        ELSE Sample(q.qz_m, q.qz_v, Noise(r, 3 + 2 * nb))} |->
    Let([library_umi \in {IF multi THEN Sample(q.ql_m.umi, q.ql_v.umi, Noise(r, 4 + 2 * nb))
        ELSE eu.latent} |->
    Let([library_adt \in {IF multi THEN Sample(q.ql_m.adt, q.ql_v.adt, Noise(r, 5 + 2 * nb))
        ELSE ea.latent} |->
    Let([umi \in {CITE_decode_umi(m, z, library_umi, batch_index, y)} |->
    Let([adt \in {IF m.reconstruction_loss_adt = "log_normal"
        THEN CITE_decode_adt_log_normal(m, z, library_adt, batch_index)
        ELSE CITE_decode_adt(m, z, library_adt, q.ql_m.adt, log_b, batch_index, y)} |->
        [px_scale |-> [umi |-> umi.px_scale, adt |-> adt.px_scale],
         px_r |-> [umi |-> umi.px_r, adt |-> adt.px_r],
         px_rate |-> [umi |-> umi.px_rate, adt |-> adt.px_rate],
         px_dropout |-> [umi |-> umi.px_dropout, adt |-> adt.px_dropout],
         qz_m |-> q.qz_m, qz_v |-> q.qz_v, z |-> z,
         ql_m |-> q.ql_m, ql_v |-> q.ql_v,
         log_b |-> log_b,
         x_ |-> x_, umi_ |-> umi_, adt_ |-> adt_,
         exc |-> FirstRaise(<<ez.q_m, eu.q_m, ea.q_m, log_b, z, library_umi,
                              library_adt, umi.px_scale, umi.px_r, adt.px_scale,
                              adt.px_rate, adt.px_r>>),
         draws |-> (IF IsT(ez.latent) THEN 1 ELSE 0) + (IF IsT(eu.latent) THEN 1 ELSE 0)
                   + (IF IsT(ea.latent) THEN 1 ELSE 0)
                   + (IF m.model_background /\ IsT(log_b)
                      THEN (IF multi THEN 2 ELSE 1) ELSE 0)
                   + (IF multi /\ IsT(z) THEN 1 ELSE 0)
                   + (IF multi /\ IsT(library_umi) THEN 1 ELSE 0)
                   + (IF multi /\ IsT(library_adt) THEN 1 ELSE 0)]])])])])])])])])])])])])])])])

\* VAECITE.sample_from_posterior_z: the sample of the z encoder
CITE_sample_from_posterior_z(m, x, y, r) ==
    Let([x_ \in {IF m.log_variational THEN Fn("log1p", x) ELSE x} |->
    Let([e \in {CITE_z_encoder(m, x_, Noise(r, 0))} |->
        [exc |-> FirstRaise(<<e.q_m>>),
         out |-> <<e.latent>>,
         draws |-> IF IsT(e.latent) THEN 1 ELSE 0,
         locals |-> [NoLocals EXCEPT !.x_ = x_]]])])

\* VAECITE.get_latents: sample_from_posterior_z(x, y) inside a list
CITE_get_latents(m, x, y, r) == CITE_sample_from_posterior_z(m, x, y, r)

\* VAECITE.sample_from_posterior_l_umi: the third output of the gene
\* library encoder on a batch of gene counts
CITE_sample_from_posterior_l_umi(m, x, r) ==
    Let([x_ \in {IF m.log_variational THEN Fn("log1p", x) ELSE x} |->
    Let([e \in {Encoder(m.n_input_genes, 1, "normal", x_, Noise(r, 0))} |->
        [exc |-> FirstRaise(<<e.q_m>>),
         out |-> <<e.latent>>,
         draws |-> IF IsT(e.latent) THEN 1 ELSE 0,
         locals |-> [NoLocals EXCEPT !.x_ = x_]]])])

\* VAECITE.sample_from_posterior_l_adt: the third output of the protein
\* library encoder on a batch of protein counts
CITE_sample_from_posterior_l_adt(m, x, r) ==
    Let([x_ \in {IF m.log_variational THEN Fn("log1p", x) ELSE x} |->
    Let([e \in {Encoder(m.n_input_proteins, 1, "normal", x_, Noise(r, 0))} |->
        [exc |-> FirstRaise(<<e.q_m>>),
         out |-> <<e.latent>>,
         draws |-> IF IsT(e.latent) THEN 1 ELSE 0,
         locals |-> [NoLocals EXCEPT !.x_ = x_]]])])

\* VAECITE.inference as a call of its own: the tuple of nine it returns,
\* its dictionaries as records
CITE_inference_call(m, x, batch_index, y, n_samples, r) ==
    Let([inf \in {CITE_inference(m, x, batch_index, y, n_samples, r)} |->
        [exc |-> inf.exc,
         out |-> <<inf.px_scale, inf.px_r, inf.px_rate, inf.px_dropout, inf.qz_m,
                   inf.qz_v, inf.z, inf.ql_m, inf.ql_v>>,
         draws |-> inf.draws,
         locals |-> [NoLocals EXCEPT
                        !.x_ = inf.x_, !.umi_ = inf.umi_, !.adt_ = inf.adt_,
                        !.px_r_umi = inf.px_r.umi, !.px_r_adt = inf.px_r.adt,
                        !.px_rate_adt = inf.px_rate.adt, !.log_b = inf.log_b,
                        !.z = inf.z, !.n_samples = n_samples]]])

\* VAECITE.get_sample_scale, get_sample_rate and get_sample_dispersion:
\* elements 0, 2 and 1 of inference's tuple, at the key mode
CITE_get_sample_scale(m, x, batch_index, y, n_samples, mode, r) ==
    Let([c \in {CITE_inference_call(m, x, batch_index, y, n_samples, r)} |->
        [c EXCEPT !.out = <<c.out[1][mode]>>]])
CITE_get_sample_rate(m, x, batch_index, y, n_samples, mode, r) ==
    Let([c \in {CITE_inference_call(m, x, batch_index, y, n_samples, r)} |->
        [c EXCEPT !.out = <<c.out[3][mode]>>]])
CITE_get_sample_dispersion(m, x, batch_index, y, n_samples, mode, r) ==
    Let([c \in {CITE_inference_call(m, x, batch_index, y, n_samples, r)} |->
        [c EXCEPT !.out = <<c.out[2][mode]>>]])

\* v.device(): the device attribute of a tensor is no function, and None has
\* no such attribute
device_call(v) == IF IsT(v) THEN Raise("TypeError") ELSE Raise("AttributeError")

\* the branches of VAECITE.forward on model_background, entered after the
\* statement whose value is before
CITE_forward_branch(m, ql_m_adt, ql_v_adt, before) ==
    IF m.model_background
    THEN Let([kl_divergence_back \in {After(<<before>>,
                   SumAll(kl("kl_divergence_back",
                             Normal(ql_m_adt, Fn("sqrt", ql_v_adt)),
                             Normal(m.b_mean, Fn("sqrt", m.b_var)))))} |->
             [kl_divergence_back |-> kl_divergence_back,
              library_log_prob |->
                  After(<<kl_divergence_back>>,
                        SumDim1(Combine("library_log_prob",
                                        <<m.adt_mean_lib, Fn("pow", m.adt_var_lib),
                                          Fn("exp", ql_m_adt)>>))),
              kl_divergence_l_adt |-> Int0]])
    ELSE Let([local_l_mean_adt \in {After(<<before>>, device_call(m.adt_mean_lib))} |->
         Let([local_l_var_adt \in {After(<<local_l_mean_adt>>, device_call(m.adt_var_lib))} |->
             [kl_divergence_l_adt |->
                  After(<<local_l_var_adt>>,
                        SumDim1(kl("kl_divergence_l_adt",
                                   Normal(ql_m_adt, Fn("sqrt", ql_v_adt)),
                                   Normal(local_l_mean_adt,
                                          Fn("sqrt", local_l_var_adt))))),
              kl_divergence_back |-> Int0,
              library_log_prob |-> Int0]])])

\* VAECITE.forward: the returned tuple, or the exception raised
CITE_forward(m, x, local_l_mean_umi, local_l_var_umi, batch_index, y, r) ==
    Let([inf \in {CITE_inference(m, x, batch_index, y, 1, r)} |->
    Let([rl \in {CITE_reconstruction_loss(m, x, inf.px_rate, inf.px_r, inf.px_dropout)} |->
    Let([mean \in {After(<<inf.exc, rl.umi, rl.adt>>, PriorMean(m.log_alpha, inf.qz_m))} |->
    Let([scale \in {After(<<mean>>, PriorScale(m.log_alpha, inf.qz_v))} |->
    Let([kl_divergence_z \in {After(<<scale>>,
              SumDim1(kl("kl_divergence_z",
                         Normal(inf.qz_m, Fn("sqrt", inf.qz_v)),
                         Normal(mean, scale))))} |->
    Let([kl_divergence_l_umi \in {After(<<kl_divergence_z>>,
              SumDim1(kl("kl_divergence_l_umi",
                         Normal(inf.ql_m.umi, Fn("sqrt", inf.ql_v.umi)),
                         Normal(local_l_mean_umi, Fn("sqrt", local_l_var_umi)))))} |->
    Let([b \in {CITE_forward_branch(m, inf.ql_m.adt, inf.ql_v.adt, kl_divergence_l_umi)} |->
    Let([ret \in {<<Add(rl.umi, kl_divergence_l_umi),
          Add(rl.adt, b.kl_divergence_l_adt),
          Sub(kl_divergence_z, b.library_log_prob),
          b.kl_divergence_back>>} |->
        [exc |-> FirstRaise(<<inf.exc, rl.umi, rl.adt, mean, scale, kl_divergence_z,
                              kl_divergence_l_umi, b.kl_divergence_back,
                              b.library_log_prob, b.kl_divergence_l_adt,
                              ret[1], ret[2], ret[3]>>),
         out |-> ret,
         draws |-> inf.draws,
         locals |-> [NoLocals EXCEPT
                        !.x_ = inf.x_, !.umi_ = inf.umi_, !.adt_ = inf.adt_,
                        !.px_r_umi = inf.px_r.umi, !.px_r_adt = inf.px_r.adt,
                        !.px_rate_adt = inf.px_rate.adt, !.log_b = inf.log_b,
                        !.z = inf.z,
                        !.umi = After(<<inf.exc>>, rl.x_umi),
                        !.adt = After(<<inf.exc>>, rl.x_adt),
                        !.mean = mean, !.scale = scale]]])])])])])])])])

----------------------------------------------------------------------------
(* The state machine: one model object, the process-wide random generator, *)
(* and the outcome of the last call                                        *)

NoCall ==
    [op |-> "none", arg |-> "", B |-> 0, width |-> 0, covariates |-> FALSE,
     rng0 |-> 0, status |-> "none", exc |-> "none", out |-> <<>>, draws |-> 0,
     locals |-> NoLocals]

\* the arguments a call is made with, and the generator's state at the call
Key(c) == <<c.op, c.arg, c.B, c.width, c.covariates, c.locals.n_samples, c.rng0>>

\* an optional covariate of a batch of B cells: a (B, 1) tensor or None
Covariate(name, given, B) == IF given THEN Given(name, <<B, 1>>) ELSE NoneV

\* the record of a call that returned res.out or raised res.exc, having
\* taken res.draws values from the generator
Outcome(op, arg, B, width, cov, res) ==
    Let([c \in {res} |->
        [op |-> op, arg |-> arg, B |-> B, width |-> width, covariates |-> cov,
         rng0 |-> rng,
         status |-> IF IsRaise(c.exc) THEN "raised" ELSE "returned",
         exc |-> IF IsRaise(c.exc) THEN (CHOOSE a \in c.exc.tm : TRUE)[1] ELSE "none",
         out |-> IF IsRaise(c.exc) THEN <<>> ELSE c.out,
         draws |-> c.draws,
         locals |-> c.locals]])

\* Dataset10X: the save path on disk and the last dataset constructed

\* the two specifications of a dataset of the 10X website
available_specification == {"filtered", "raw"}

\* self.save_name and self.download_name of a remote dataset
save_name(type) == type \o "_gene_bc_matrices"
download_name(type) == save_name(type) \o ".tar.gz"

\* the names a file of a directory of matrix files may have
FileNames ==
    {"matrix.mtx", "matrix.mtx.gz", "genes.tsv", "features.tsv.gz",
     "barcodes.tsv", "barcodes.tsv.gz"}

\* name[-3:] == '.gz'
EndsGz(name) ==
    name \in {"matrix.mtx.gz", "features.tsv.gz", "barcodes.tsv.gz"}
             \cup {download_name(type) : type \in available_specification}

\* the listings of a directory: its files, none twice, in the order the
\* operating system lists them
Listings ==
    {s \in UNION {[1..n -> FileNames] : n \in 0..MaxFiles} :
        \A i, j \in DOMAIN s : s[i] = s[j] => i = j}

Range(s) == {s[i] : i \in DOMAIN s}

\* no disk and no dataset: the state of a process that loads no data
NoDisk ==
    [top |-> <<>>, extracted |-> <<>>,
     extractions |-> [type \in available_specification |-> 0], content |-> <<>>]
NoDataset ==
    [op |-> "none", type |-> "", extracted |-> FALSE, exc |-> "none",
     root |-> "", suffix |-> "", files |-> <<>>]

\* GeneExpressionDataset.download as Dataset10X relies on it: the archive
\* download_name is fetched into save_path unless it is already there
download(d, type) ==
    IF download_name(type) \in Range(d.top) THEN d
    ELSE [d EXCEPT !.top = Append(@, download_name(type))]

\* os.walk(dir_path), top-down: the save path with its archives, then the
\* directory of matrix files of every extracted archive; of a local
\* dataset, its directory
walk(d, remote) ==
    IF remote
    THEN <<[root |-> "save_path", files |-> d.top]>>
         \o [i \in 1..Len(d.extracted) |->
                [root |-> save_name(d.extracted[i]), files |-> d.content]]
    ELSE <<[root |-> "local", files |-> d.content]>>

\* Dataset10X.find_exact_path on the walk w: the first directory with a
\* matrix file, and the suffix read off the first file listed there
find_exact_path(w) ==
    LET hits == {i \in 1..Len(w) : Range(w[i].files) \cap {"matrix.mtx", "matrix.mtx.gz"} # {}}
        first == CHOOSE i \in hits : \A j \in hits : i <= j
    IN  IF hits = {}
        THEN [exc |-> "FileNotFoundError", root |-> "", suffix |-> "", files |-> <<>>]
        ELSE [exc |-> "none", root |-> w[first].root,
              suffix |-> IF EndsGz(w[first].files[1]) THEN ".gz" ELSE "",
              files |-> w[first].files]

\* Dataset10X.preprocess: a remote dataset extracts its archive when the
\* save path holds exactly one entry; the files are searched, then the gene
\* file and the matrix are read under the names the suffix gives
preprocess(d, type, remote) ==
    LET extract == remote /\ Len(d.top) + Len(d.extracted) = 1
        e == IF extract
             THEN [d EXCEPT !.extracted = Append(@, type), !.extractions[type] = @ + 1]
             ELSE d
        f == find_exact_path(walk(e, remote))
        gene_filename == IF f.suffix = "" THEN "genes.tsv" ELSE "features.tsv.gz"
    IN  [disk |-> e,
         dataset |->
            [op |-> IF remote THEN "remote" ELSE "local", type |-> type,
             extracted |-> extract,
             exc |-> IF f.exc # "none" THEN f.exc
                     ELSE IF {gene_filename, "matrix.mtx" \o f.suffix} \subseteq Range(f.files)
                     THEN "none"
                     ELSE "FileNotFoundError",
             root |-> f.root, suffix |-> f.suffix, files |-> f.files]]

\* Dataset10X.__init__: download_and_preprocess
Dataset10X_init(d, type, remote) ==
    preprocess(IF remote THEN download(d, type) ELSE d, type, remote)

Init ==
    /\ model = Blank
    /\ rng = 0
    /\ last = NoCall
    /\ repeat = FALSE
    /\ disk = NoDisk
    /\ dataset = NoDataset

\* torch.manual_seed(seed), with the seed the process started from
ManualSeed ==
    /\ rng # 0
    /\ rng' = 0
    /\ UNCHANGED <<model, last, repeat, disk, dataset>>

\* the cardinalities of the two covariates: a dataset without batches and
\* labels, or with NCat of each
Covariates == {[n_batch |-> c, n_labels |-> c] : c \in Cardinalities}

\* the constructor arguments tried for VAE_ATAC: every dispersion and loss
\* name under both covariate cardinalities, and the transform and the alpha
\* prior varied for the default family and a count family
ATAC_Args ==
    {co @@ o :
        co \in Covariates,
        o \in [dispersion : ATAC_Dispersions \cup {"gene-typo"},
               log_variational : {FALSE},
               reconstruction_loss : ATAC_Losses \cup {"poisson"},
               log_alpha_prior : {"None"}]}
    \cup
    [n_batch : {0}, n_labels : {0}, dispersion : {"gene"},
     log_variational : BOOLEAN, reconstruction_loss : {"lda", "nb"},
     log_alpha_prior : {"None", "float", "str"}]

\* model = VAE_ATAC(n_input, ...)
ConstructATAC ==
    /\ model.status = "none"
    /\ \E a \in ATAC_Args :
        model' = ATAC_init(NGenes, a.n_batch, a.n_labels, NLatent, a.dispersion,
                           a.log_variational, a.reconstruction_loss,
                           a.log_alpha_prior)
    /\ UNCHANGED <<rng, last, repeat, disk, dataset>>

\* a tensor handed to a constructor
Supplied(name) == T(<<1>>, {<<name, 1>>}, NoDeps)

\* the constructor arguments tried for VAECITE.  One modality's dispersion
\* and loss names vary while the other modality keeps its defaults, under
\* every background flag, prior and covariate cardinality; the transform,
\* the latent family and log_alpha vary with both modalities at their
\* defaults; and one call passes no protein_indexes
CITE_Sizes ==
    [n_input_genes |-> NGenes, n_proteins |-> NProteins, n_latent |-> NLatent]
CITE_Modalities ==
    [umi_dispersion : CITE_UmiDispersions \cup {"gene-typo"},
     reconstruction_loss_umi : CITE_UmiLosses \cup {"poisson"},
     adt_dispersion : {"protein"}, reconstruction_loss_adt : {"nb"}]
    \cup
    [umi_dispersion : {"gene"}, reconstruction_loss_umi : {"zinb"},
     adt_dispersion : CITE_AdtDispersions \cup {"protein-typo"},
     reconstruction_loss_adt : CITE_AdtLosses \cup {"zinb"}]
CITE_Priors ==
    {[adt_mean_lib |-> NoneV, adt_var_lib |-> NoneV, b_mean |-> NoneV, b_var |-> NoneV],
     [adt_mean_lib |-> Supplied("adt_mean_lib"), adt_var_lib |-> Supplied("adt_var_lib"),
      b_mean |-> NoneV, b_var |-> NoneV],
     [adt_mean_lib |-> Supplied("adt_mean_lib"), adt_var_lib |-> Supplied("adt_var_lib"),
      b_mean |-> Supplied("b_mean"), b_var |-> Supplied("b_var")]}

\* the priors tried with each background flag: none and the library prior
\* without background modelling, none and all of them with it
CITE_Backgrounds ==
    {pr @@ [model_background |-> FALSE] :
        pr \in {p \in CITE_Priors : ~IsT(p.b_mean)}}
    \cup
    {pr @@ [model_background |-> TRUE] :
        pr \in {p \in CITE_Priors : IsT(p.b_mean) = IsT(p.adt_mean_lib)}}
CITE_Args ==
    {CITE_Sizes @@ mo @@ pr @@ co @@ o :
        mo \in CITE_Modalities, pr \in CITE_Backgrounds, co \in Covariates,
        o \in [protein_indexes : {"list"},
               log_variational : {TRUE}, latent_distribution : {"normal"},
               log_alpha : {"None"}]}
    \cup
    {CITE_Sizes @@ pr @@ o :
        pr \in CITE_Backgrounds,
        o \in [protein_indexes : {"list"},
               n_batch : {0}, n_labels : {0},
               umi_dispersion : {"gene"}, reconstruction_loss_umi : {"zinb"},
               adt_dispersion : {"protein"}, reconstruction_loss_adt : {"nb"},
               log_variational : BOOLEAN, latent_distribution : {"normal", "ln"},
               log_alpha : {"None", "float", "tensor"}]}
    \cup
    {CITE_Sizes @@ pr @@ o :
        pr \in {p \in CITE_Priors : p.adt_mean_lib = NoneV},
        o \in [protein_indexes : {"None"}, model_background : {FALSE},
               n_batch : {0}, n_labels : {0},
               umi_dispersion : {"gene"}, reconstruction_loss_umi : {"zinb"},
               adt_dispersion : {"protein"}, reconstruction_loss_adt : {"nb"},
               log_variational : {TRUE}, latent_distribution : {"normal"},
               log_alpha : {"None"}]}

\* model = VAECITE(n_input_genes, protein_indexes, ...)
ConstructCITE ==
    /\ model.status = "none"
    /\ \E a \in CITE_Args : model' = CITE_init(a)
    /\ UNCHANGED <<rng, last, repeat, disk, dataset>>

\* the object after one of its methods ran: no method of VAE_ATAC but
\* __init__ assigns an attribute of self or writes into a parameter
ATAC_self(m, op) == m

\* an inference that renames the per-cell protein dispersion itself, as
\* __init__ does, instead of finding it renamed
CITE_self_renaming(m, op) ==
    IF op = "inference" THEN [m EXCEPT !.adt_dispersion = "gene-cell"] ELSE m

\* the object after one of its methods ran: no method of VAECITE but
\* __init__ assigns an attribute of self or writes into a parameter
CITE_self(m, op) == m

\* a call of method op on the model of class cls with result res, made on
\* a freshly seeded generator
Call(cls, op, arg, B, width, cov, res) ==
    /\ model.cls = cls
    /\ model.status = "constructed"
    /\ rng = 0
    /\ last' = Outcome(op, arg, B, width, cov, res)
    /\ rng' = rng + last'.draws
    /\ rng' <= MaxDraws
    /\ repeat' = (last.op # "none" /\ Key(last) = Key(last'))
    /\ model' = IF cls = "VAE_ATAC" THEN ATAC_self(model, op) ELSE CITE_self(model, op)
    /\ UNCHANGED <<disk, dataset>>

CITE_n_input == model.n_input_genes + model.n_input_proteins

\* the batches handed to forward and inference: every batch size with and
\* without covariates at the declared number n of columns, and one cell
\* with covariates at one column less and one more
Batches(n) ==
    [B : BatchSizes, cov : BOOLEAN, w : {n}]
    \cup [B : {1}, cov : {TRUE}, w : {n - 1, n + 1}]

\* the batch handed to the query operations that take covariates
QueryBatches == [B : {MaxCells}, cov : {TRUE}]

\* model(x, local_l_mean_umi, local_l_var_umi, batch_index, y) on a VAECITE
ForwardCITE ==
    \E b \in Batches(CITE_n_input) :
        Call("VAECITE", "forward", "", b.B, b.w, b.cov,
             CITE_forward(model, Given("x", <<b.B, b.w>>),
                 Given("local_l_mean_umi", <<b.B, 1>>),
                 Given("local_l_var_umi", <<b.B, 1>>),
                 Covariate("batch_index", b.cov, b.B),
                 Covariate("y", b.cov, b.B), rng))

\* model.inference(x, batch_index, y) on a VAECITE, both covariates supplied
InferenceCITE ==
    \E b \in {c \in Batches(CITE_n_input) : c.cov}, n_samples \in {1, MaxSamples} :
        Call("VAECITE", "inference", "", b.B, b.w, b.cov,
             CITE_inference_call(model, Given("x", <<b.B, b.w>>),
                 Covariate("batch_index", b.cov, b.B), Covariate("y", b.cov, b.B),
                 n_samples, rng))

\* model.get_sample_scale(x, batch_index, y, mode=mode) on a VAECITE
GetSampleScaleCITE ==
    \E b \in QueryBatches, mode \in {"umi", "adt"} :
        Call("VAECITE", "get_sample_scale", mode, b.B, CITE_n_input, b.cov,
             CITE_get_sample_scale(model, Given("x", <<b.B, CITE_n_input>>),
                 Covariate("batch_index", b.cov, b.B), Covariate("y", b.cov, b.B),
                 1, mode, rng))

\* model.get_sample_rate(x, batch_index, y, mode=mode) on a VAECITE
GetSampleRateCITE ==
    \E b \in QueryBatches, mode \in {"umi", "adt"} :
        Call("VAECITE", "get_sample_rate", mode, b.B, CITE_n_input, b.cov,
             CITE_get_sample_rate(model, Given("x", <<b.B, CITE_n_input>>),
                 Covariate("batch_index", b.cov, b.B), Covariate("y", b.cov, b.B),
                 1, mode, rng))

\* model.get_sample_dispersion(x, batch_index, y, mode=mode) on a VAECITE
GetSampleDispersionCITE ==
    \E b \in QueryBatches, mode \in {"umi", "adt"} :
        Call("VAECITE", "get_sample_dispersion", mode, b.B, CITE_n_input, b.cov,
             CITE_get_sample_dispersion(model, Given("x", <<b.B, CITE_n_input>>),
                 Covariate("batch_index", b.cov, b.B), Covariate("y", b.cov, b.B),
                 1, mode, rng))

\* model.sample_from_posterior_z(x) on a VAECITE
SampleFromPosteriorZCITE ==
    Call("VAECITE", "sample_from_posterior_z", "", MaxCells, CITE_n_input, FALSE,
         CITE_sample_from_posterior_z(model, Given("x", <<MaxCells, CITE_n_input>>),
                                      NoneV, rng))

\* model.get_latents(x) on a VAECITE
GetLatentsCITE ==
    Call("VAECITE", "get_latents", "", MaxCells, CITE_n_input, FALSE,
         CITE_get_latents(model, Given("x", <<MaxCells, CITE_n_input>>), NoneV, rng))

\* model.sample_from_posterior_l_umi(x) on a VAECITE, x the gene counts
SampleFromPosteriorLUmiCITE ==
    Call("VAECITE", "sample_from_posterior_l_umi", "", MaxCells, model.n_input_genes,
         FALSE,
         CITE_sample_from_posterior_l_umi(model,
             Given("x", <<MaxCells, model.n_input_genes>>), rng))

\* model.sample_from_posterior_l_adt(x) on a VAECITE, x the protein counts
SampleFromPosteriorLAdtCITE ==
    Call("VAECITE", "sample_from_posterior_l_adt", "", MaxCells, model.n_input_proteins,
         FALSE,
         CITE_sample_from_posterior_l_adt(model,
             Given("x", <<MaxCells, model.n_input_proteins>>), rng))

\* model(x, local_l_mean, local_l_var, batch_index, y) on a VAE_ATAC: the
\* covariates are both supplied or both left at their default None
ForwardATAC ==
    \E b \in Batches(model.n_input) :
        Call("VAE_ATAC", "forward", "", b.B, b.w, b.cov,
             ATAC_forward(model, Given("x", <<b.B, b.w>>),
                 Given("local_l_mean", <<b.B, 1>>),
                 Given("local_l_var", <<b.B, 1>>),
                 Covariate("batch_index", b.cov, b.B),
                 Covariate("y", b.cov, b.B), rng))

\* model.inference(x, batch_index, y) on a VAE_ATAC, both covariates supplied
InferenceATAC ==
    \E b \in {c \in Batches(model.n_input) : c.cov}, n_samples \in {1, MaxSamples} :
        Call("VAE_ATAC", "inference", "", b.B, b.w, b.cov,
             ATAC_inference_call(model, Given("x", <<b.B, b.w>>),
                 Covariate("batch_index", b.cov, b.B), Covariate("y", b.cov, b.B),
                 n_samples, rng))

\* model.get_sample_scale(x, batch_index, y) on a VAE_ATAC
GetSampleScaleATAC ==
    \E b \in QueryBatches :
        Call("VAE_ATAC", "get_sample_scale", "", b.B, model.n_input, b.cov,
             ATAC_get_sample_scale(model, Given("x", <<b.B, model.n_input>>),
                 Covariate("batch_index", b.cov, b.B), Covariate("y", b.cov, b.B),
                 1, rng))

\* model.get_sample_rate(x, batch_index, y) on a VAE_ATAC
GetSampleRateATAC ==
    \E b \in QueryBatches :
        Call("VAE_ATAC", "get_sample_rate", "", b.B, model.n_input, b.cov,
             ATAC_get_sample_rate(model, Given("x", <<b.B, model.n_input>>),
                 Covariate("batch_index", b.cov, b.B), Covariate("y", b.cov, b.B),
                 1, rng))

\* model.sample_from_posterior_z(x, give_mean=give_mean) on a VAE_ATAC
SampleFromPosteriorZATAC ==
    \E give_mean \in BOOLEAN :
        Call("VAE_ATAC", "sample_from_posterior_z",
             IF give_mean THEN "give_mean" ELSE "", MaxCells, model.n_input, FALSE,
             ATAC_sample_from_posterior_z(model, Given("x", <<MaxCells, model.n_input>>),
                                          NoneV, give_mean, rng))

\* model.get_latents(x) on a VAE_ATAC
GetLatentsATAC ==
    Call("VAE_ATAC", "get_latents", "", MaxCells, model.n_input, FALSE,
         ATAC_get_latents(model, Given("x", <<MaxCells, model.n_input>>), NoneV, rng))

\* model.sample_from_posterior_l(x) on a VAE_ATAC
SampleFromPosteriorLATAC ==
    Call("VAE_ATAC", "sample_from_posterior_l", "", MaxCells, model.n_input, FALSE,
         ATAC_sample_from_posterior_l(model, Given("x", <<MaxCells, model.n_input>>), rng))

\* model.scale_from_z(sample_batch, fixed_batch) on a VAE_ATAC
ScaleFromZATAC ==
    \E B \in BatchSizes :
        Call("VAE_ATAC", "scale_from_z", "", B, model.n_input, FALSE,
             ATAC_scale_from_z(model, Given("sample_batch", <<B, model.n_input>>),
                               FloatV, rng))

Next ==
    \/ ManualSeed
    \/ ConstructATAC
    \/ ForwardATAC
    \/ InferenceATAC
    \/ GetSampleScaleATAC
    \/ GetSampleRateATAC
    \/ SampleFromPosteriorZATAC
    \/ GetLatentsATAC
    \/ SampleFromPosteriorLATAC
    \/ ScaleFromZATAC
    \/ ConstructCITE
    \/ ForwardCITE
    \/ InferenceCITE
    \/ GetSampleScaleCITE
    \/ GetSampleRateCITE
    \/ GetSampleDispersionCITE
    \/ SampleFromPosteriorZCITE
    \/ GetLatentsCITE
    \/ SampleFromPosteriorLUmiCITE
    \/ SampleFromPosteriorLAdtCITE

Spec == Init /\ [][Next]_vars

----------------------------------------------------------------------------
(* Dataset10X: datasets constructed over one save path *)

\* a save path, empty or holding one file that is no archive, and the
\* listing of the directory of matrix files
InitDataset ==
    /\ model = Blank
    /\ rng = 0
    /\ last = NoCall
    /\ repeat = FALSE
    /\ disk \in {[NoDisk EXCEPT !.top = t, !.content = c] :
                    t \in {<<>>, <<".DS_Store">>}, c \in Listings}
    /\ dataset = NoDataset

\* Dataset10X(filename, type=type), remote
Dataset10XRemote ==
    /\ \E type \in available_specification :
          LET r == Dataset10X_init(disk, type, TRUE)
          IN  disk' = r.disk /\ dataset' = r.dataset
    /\ UNCHANGED <<model, rng, last, repeat>>

\* Dataset10X(filename, remote=False) on a directory of the listing
Dataset10XLocal ==
    /\ LET r == Dataset10X_init(disk, "filtered", FALSE)
       IN  disk' = r.disk /\ dataset' = r.dataset
    /\ UNCHANGED <<model, rng, last, repeat>>

NextDataset ==
    \/ Dataset10XRemote
    \/ Dataset10XLocal

SpecDataset == InitDataset /\ [][NextDataset]_vars

----------------------------------------------------------------------------
(* Properties *)

ATACForward == last.op = "forward" /\ model.cls = "VAE_ATAC"
CITEForward == last.op = "forward" /\ model.cls = "VAECITE"
Returned == last.status = "returned"

\* name is one of the addends of the loss value v
Has(v, name) == \E a \in v.tm : a[1] = name

\* v is a vector with one entry per cell of the last call's batch
PerCell(v) == IsT(v) /\ v.sh = <<last.B>>

\* the last call handed the model the covariates its configuration uses
CovariatesFit(dispersion, batch_mode, label_mode) ==
    /\ model.n_batch > 0 => last.covariates
    /\ dispersion = batch_mode => (model.n_batch > 0 /\ last.covariates)
    /\ dispersion = label_mode => (model.n_labels > 0 /\ last.covariates)

\* a VAECITE built from documented names, called with a batch of its
\* declared number of columns and with the covariates it uses
CITEValidCall ==
    /\ CITEForward
    /\ last.width = model.n_input_genes + model.n_input_proteins
    /\ model.umi_dispersion \in CITE_UmiDispersions
    /\ model.adt_dispersion_arg \in CITE_AdtDispersions
    /\ model.reconstruction_loss_umi \in CITE_UmiLosses
    /\ model.reconstruction_loss_adt \in CITE_AdtLosses
    /\ model.log_alpha.k # "float"
    /\ CovariatesFit(model.umi_dispersion, "gene-batch", "gene-label")
    /\ CovariatesFit(model.adt_dispersion, "protein-batch", "protein-label")

\* C1: a model with a dispersion name outside the documented ones is never
\* constructed: VAE_ATAC's dispersion is one of its four names, VAECITE's
\* umi_dispersion one of the four gene names and its adt_dispersion one of
\* the four protein names
C1_UnknownDispersionRejected ==
    model.status = "constructed" =>
        /\ model.cls = "VAE_ATAC" => model.dispersion \in ATAC_Dispersions
        /\ model.cls = "VAECITE" =>
            /\ model.umi_dispersion \in CITE_UmiDispersions
            /\ model.adt_dispersion_arg \in CITE_AdtDispersions

\* C2: a model with an unrecognised reconstruction-loss family is never
\* constructed: VAE_ATAC's reconstruction_loss is a name it branches on,
\* VAECITE's reconstruction_loss_umi is nb or zinb and its
\* reconstruction_loss_adt is nb, poisson or log_normal
C2_UnknownLossRejected ==
    model.status = "constructed" =>
        /\ model.cls = "VAE_ATAC" => model.reconstruction_loss \in ATAC_Losses
        /\ model.cls = "VAECITE" =>
            /\ model.reconstruction_loss_umi \in CITE_UmiLosses
            /\ model.reconstruction_loss_adt \in CITE_AdtLosses

C4_ProteinTermHasLibraryKL ==
    (CITEForward /\ Returned) =>
        /\ last.out[1].tm = {<<"reconst_loss_umi", 1>>, <<"kl_divergence_l_umi", 1>>}
        /\ last.out[2].tm = {<<"reconst_loss_adt", 1>>, <<"kl_divergence_l_adt", 1>>}

\* C5: the third term VAECITE.forward returns is the KL of z from its prior
\* and nothing else
C5_ThirdTermIsZKL ==
    (CITEForward /\ Returned) => last.out[3].tm = {<<"kl_divergence_z", 1>>}

\* C6: every forward call on a VAECITE without background modelling returns
\* the constant 0 as its fourth term
C6_NoBackgroundTermIsZero ==
    (CITEValidCall /\ ~model.model_background) =>
        (Returned /\ last.out[4] = Int0)

\* C7: forward on a VAECITE with the protein library priors supplied (and,
\* with background modelling, its prior too) completes and returns the umi
\* and adt terms as two vectors of batch length, background on or off
C7_ForwardCompletes ==
    (/\ CITEValidCall
     /\ IsT(model.adt_mean_lib) /\ IsT(model.adt_var_lib)
     /\ model.model_background => (IsT(model.b_mean) /\ IsT(model.b_var)))
    => (Returned /\ PerCell(last.out[1]) /\ PerCell(last.out[2]))

\* C8: each of the four terms VAECITE.forward returns is the constant 0 or
\* has one entry per cell
C8_TermsPerCell ==
    (CITEForward /\ Returned) =>
        /\ Len(last.out) = 4
        /\ \A i \in 1..4 : last.out[i] = Int0 \/ PerCell(last.out[i])

\* a VAE_ATAC of a family it branches on, with a documented dispersion
\* name, called with a batch of its declared number of columns and with the
\* covariates it uses
ATACValidCall ==
    /\ ATACForward
    /\ last.width = model.n_input
    /\ model.reconstruction_loss \in ATAC_Losses
    /\ model.dispersion \in ATAC_Dispersions
    /\ model.n_batch > 0 => last.covariates
    /\ model.reconstruction_loss \notin ATAC_NonCount
           => CovariatesFit(model.dispersion, "gene-batch", "gene-label")

InferenceRan == last.op \in {"forward", "inference"}

\* the granularity a dispersion name selects
Granularity(name) ==
    IF name \in {"gene", "protein"} THEN "feature"
    ELSE IF name \in {"gene-batch", "protein-batch"} THEN "batch"
    ELSE IF name \in {"gene-label", "protein-label"} THEN "label"
    ELSE "cell"

\* the dispersion v is the one the name selects: the free parameter param
\* alone, param indexed by batch_index, param indexed by y, or the decoder's
\* per-cell output
Selected(v, param, name) ==
    /\ Granularity(name) = "feature" => (Has(v, param) /\ v.dep = {})
    /\ Granularity(name) = "batch" => (Has(v, param) /\ v.dep = {<<"batch_index", 0, 1>>})
    /\ Granularity(name) = "label" => (Has(v, param) /\ v.dep = {<<"y", 0, 1>>})
    /\ Granularity(name) = "cell" => (Has(v, "px_r_decoder") \/ Has(v, "p_v"))

\* C11: in every forward and inference call that produces a dispersion for
\* a modality, the dispersion is the one the modality's documented name
\* selected at construction, for every reconstruction-loss family
C11_SelectedDispersionActive ==
    InferenceRan =>
        /\ (model.cls = "VAE_ATAC" /\ model.dispersion \in ATAC_Dispersions
             /\ IsT(last.locals.px_r))
            => Selected(last.locals.px_r, "px_r", model.dispersion)
        /\ (model.cls = "VAECITE" /\ model.umi_dispersion \in CITE_UmiDispersions
             /\ IsT(last.locals.px_r_umi))
            => Selected(last.locals.px_r_umi, "px_r_umi", model.umi_dispersion)
        /\ (model.cls = "VAECITE" /\ model.adt_dispersion_arg \in CITE_AdtDispersions
             /\ IsT(last.locals.px_r_adt))
            => Selected(last.locals.px_r_adt, "px_r_adt", model.adt_dispersion_arg)

\* the last call was one of the library-size query operations
LibraryQuery ==
    last.op \in {"sample_from_posterior_l", "sample_from_posterior_l_umi",
                 "sample_from_posterior_l_adt"}

\* C12: a library-size query operation returns the posterior mean of the
\* library encoder, a value that depends on no random draw
C12_LibraryQueryReturnsMean ==
    (LibraryQuery /\ Returned) =>
        /\ Has(last.out[1], "q_m")
        /\ \A d \in last.out[1].dep : d[1] # "rng"

\* C13: what VAE_ATAC.get_sample_scale and get_sample_rate return is a
\* tensor of shape (batch_size, n_input), never None, whatever
\* reconstruction-loss family the model was built with
C13_SampleScaleIsTensor ==
    (model.cls = "VAE_ATAC" /\ last.op \in {"get_sample_scale", "get_sample_rate"}
     /\ Returned)
    => (IsT(last.out[1]) /\ last.out[1].sh = <<last.B, model.n_input>>)

Cols(v) == CHOOSE d \in v.dep : d[1] = "x"

\* C15: in every forward and inference call of a VAECITE the gene segment
\* fed to the gene library encoder is the columns [0, n_input_genes) and the
\* protein segment fed to the protein library encoder is the remaining
\* columns, n_input_proteins of them for a batch of the declared width; the
\* two are disjoint and cover the input, and the segments the
\* reconstruction losses are computed against are the same two
C15_SegmentsFixed ==
    (model.cls = "VAECITE" /\ InferenceRan
     /\ IsT(last.locals.umi_) /\ IsT(last.locals.adt_))
    => /\ Cols(last.locals.umi_)[2] = 0
       /\ Cols(last.locals.umi_)[3] = Min(model.n_input_genes, last.width)
       /\ Cols(last.locals.adt_)[2] = Cols(last.locals.umi_)[3]
       /\ Cols(last.locals.adt_)[3] = last.width
       /\ last.width = model.n_input_genes + model.n_input_proteins
              => last.locals.adt_.sh[2] = model.n_input_proteins
       /\ (IsT(last.locals.umi) /\ IsT(last.locals.adt))
              => /\ last.locals.umi.dep = last.locals.umi_.dep
                 /\ last.locals.adt.dep = last.locals.adt_.dep
                 /\ last.locals.umi.sh = last.locals.umi_.sh
                 /\ last.locals.adt.sh = last.locals.adt_.sh

\* C15's case: a forward returned whose losses were computed against the
\* genes [0, NGenes) and the proteins [NGenes, NGenes + NProteins)
C15_Witness ==
    /\ CITEForward /\ Returned
    /\ last.locals.umi.dep = {<<"x", 0, NGenes>>}
    /\ last.locals.adt.dep = {<<"x", NGenes, NGenes + NProteins>>}
    /\ last.locals.adt_.dep = {<<"x", NGenes, NGenes + NProteins>>}

\* the dispersion name asks for a parameter per category of a covariate
\* that has no category
Mismatched(dispersion, batch_mode, label_mode, n_batch, n_labels) ==
    \/ dispersion = batch_mode /\ n_batch = 0
    \/ dispersion = label_mode /\ n_labels = 0

\* C16: no model is constructed whose dispersion mode is per batch while
\* n_batch = 0, or per label while n_labels = 0
C16_MismatchRejectedAtConstruction ==
    model.status = "constructed" =>
        /\ model.cls = "VAE_ATAC" =>
               ~Mismatched(model.dispersion, "gene-batch", "gene-label",
                           model.n_batch, model.n_labels)
        /\ model.cls = "VAECITE" =>
               /\ ~Mismatched(model.umi_dispersion, "gene-batch", "gene-label",
                              model.n_batch, model.n_labels)
               /\ ~Mismatched(model.adt_dispersion, "protein-batch", "protein-label",
                              model.n_batch, model.n_labels)

\* the number of columns the model was declared with
DeclaredWidth ==
    IF model.cls = "VAE_ATAC" THEN model.n_input
    ELSE model.n_input_genes + model.n_input_proteins

\* C17: a forward or inference call on a batch whose number of columns
\* differs from the declared one raises, and it raises at its first
\* encoder, before any latent is sampled: a VAECITE does not go on with the
\* surplus or missing columns in its protein segment
C17_WrongWidthRaises ==
    (InferenceRan /\ last.width # DeclaredWidth) =>
        (last.status = "raised" /\ last.draws = 0)

\* C17's case: a VAECITE forward on a batch one column too wide, the
\* surplus column in the protein segment when the call raised
C17_Witness ==
    /\ CITEForward /\ last.status = "raised"
    /\ last.width = NGenes + NProteins + 1
    /\ IsT(last.locals.adt_) /\ last.locals.adt_.sh[2] = NProteins + 1

\* the mean and scale of a standard normal: zeros_like and ones_like
StandardNormal(mean, scale) ==
    /\ IsT(mean) /\ mean.tm = {} /\ mean.fn = <<>>
    /\ IsT(scale) /\ scale.tm = {} /\ scale.fn = <<>>

\* the mean and scale computed from an alpha
AlphaDerived(mean, scale) ==
    /\ IsT(mean) /\ mean.fn # <<>> /\ mean.fn[Len(mean.fn)] = "alpha_mean"
    /\ IsT(scale) /\ Len(scale.fn) >= 2 /\ scale.fn[Len(scale.fn) - 1] = "alpha_var"

\* C18: in a forward that returned, the prior of the z KL term is the
\* standard normal when the z encoder is of the normal family and the
\* alpha-derived prior when it is of the 'ln' family, in both classes and
\* whatever log_alpha or log_alpha_prior argument the model was built with
C18_PriorMatchesLatentFamily ==
    (last.op = "forward" /\ last.status = "returned") =>
        /\ (model.z_encoder = "normal" =>
                StandardNormal(last.locals.mean, last.locals.scale))
        /\ (model.z_encoder = "ln" =>
                AlphaDerived(last.locals.mean, last.locals.scale))

\* v is the exponential, taken once, of a value no function was applied to
ExpOnce(v) == IsT(v) /\ v.fn = <<"exp">>

Transform == IF model.log_variational THEN <<"log1p">> ELSE <<>>

\* C20: in forward, in inference and in every query the counts fed to the
\* encoders are log(1 + x) exactly when log_variational is set, and the
\* counts a forward hands to the reconstruction likelihood are the raw
\* input
C20_LogTransformOnlyForEncoders ==
    /\ last.op # "none" =>
           (IsT(last.locals.x_) /\ last.locals.x_.fn = Transform)
    /\ (ATACForward /\ Returned) =>
           (IsT(last.locals.x) /\ last.locals.x.fn = <<>>)
    /\ (CITEForward /\ Returned) =>
           /\ IsT(last.locals.umi) /\ last.locals.umi.fn = <<>>
           /\ IsT(last.locals.adt) /\ last.locals.adt.fn = <<>>

\* C20's case: a forward of a model with log_variational set returned, its
\* encoders fed the transformed counts and its likelihood the raw ones
C20_Witness ==
    /\ last.op = "forward" /\ Returned
    /\ model.log_variational
    /\ last.locals.x_.fn = <<"log1p">>
    /\ \/ model.cls = "VAE_ATAC" /\ last.locals.x.fn = <<>>
       \/ model.cls = "VAECITE" /\ last.locals.umi.fn = <<>>

\* C21: when a VAECITE forward or inference returned, the protein rate
\* holds the addend exp(log_b) and a background was sampled exactly when
\* background modelling is enabled, for every protein reconstruction-loss
\* family
C21_BackgroundAddedWhenModelled ==
    (model.cls = "VAECITE" /\ InferenceRan /\ Returned) =>
        /\ IsT(last.locals.px_rate_adt)
        /\ IsT(last.locals.log_b) <=> model.model_background
        /\ Has(last.locals.px_rate_adt, "exp(log_b)") <=> model.model_background

\* the functions the z encoder of the model applies to its sample
Transformation == IF model.z_encoder = "ln" THEN <<"softmax">> ELSE <<>>

\* C22: when forward or inference returned, the latent z handed to the
\* decoder carries the output transform of the z encoder, for one sample
\* and for several: a z drawn again for n_samples > 1 under an 'ln'
\* encoder is transformed before it is decoded, in both classes
C22_MultiSampleLatentTransformed ==
    (InferenceRan /\ Returned) =>
        (IsT(last.locals.z) /\ last.locals.z.fn = Transformation)

\* C23: over any sequence of remote datasets constructed on one save path
\* no archive is extracted twice, and the archive of the dataset just
\* constructed has been extracted before its files were searched, whatever
\* else the save path holds
C23_ExtractedOnceBeforeSearch ==
    /\ \A type \in available_specification : disk.extractions[type] <= 1
    /\ dataset.op = "remote" => dataset.type \in Range(disk.extracted)

\* C24: the suffix find_exact_path returns for a directory with one matrix
\* file is '.gz' exactly when that file is 'matrix.mtx.gz', whatever other
\* files the directory lists and in whatever order
C24_SuffixOfMatrixFile ==
    (dataset.op # "none" /\ dataset.root # ""
     /\ ~({"matrix.mtx", "matrix.mtx.gz"} \subseteq Range(dataset.files))) =>
        (dataset.suffix = ".gz" <=> "matrix.mtx.gz" \in Range(dataset.files))

====
